---- MODULE Spec2Model ----
(***************************************************************************)
(* Model of the weather predictor of data_fetching.py: WeatherPredictor    *)
(* (per-year concurrent fetch, daily aggregation, state vectors, weights,  *)
(* weighted PCA, Monte Carlo ensemble, summary statistics), as a state     *)
(* machine of predict calls issued by one or two client threads that share *)
(* the process-wide numpy generator.                                       *)
(*                                                                         *)
(* Numbers are fixed point: observations in 1e-2 physical units, weights   *)
(* in 1e-4, variances and eigenvalues in 1e-8 (1e-4 * 1e-2 * 1e-2), the    *)
(* ensemble and its statistics in 1e-4 physical units.                     *)
(***************************************************************************)
EXTENDS Integers, Sequences, FiniteSets, TLC

(* ------------------------------ bounds --------------------------------- *)
MaxYearsBack == 3
MaxWindow == 1
MaxN == 2
NSeeds == 2

\* the target dates of the model: a date after a leap day, the first day of
\* a year, and a leap day
TargetDates == {<<2013, 3, 1>>, <<2013, 1, 1>>, <<2012, 2, 29>>}

(* ------------------------- sequence helpers ---------------------------- *)
RECURSIVE SumSeq(_)
SumSeq(s) == IF s = <<>> THEN 0 ELSE Head(s) + SumSeq(Tail(s))

RECURSIVE SortedSeq(_)
\* sorted(set): the elements of a finite set of integers in ascending order
SortedSeq(S) ==
    IF S = {} THEN <<>>
    ELSE LET m == CHOOSE x \in S : \A y \in S : x <= y
         IN  <<m>> \o SortedSeq(S \ {m})

\* an array held in memory: its entries are computed once, not at each access
Arr(f) == IF f = f THEN f ELSE f

Range(s) == {s[i] : i \in 1..Len(s)}
Abs(x) == IF x < 0 THEN 0 - x ELSE x
Max(a, b) == IF a >= b THEN a ELSE b
Min(a, b) == IF a <= b THEN a ELSE b

RECURSIVE ISqrtFrom(_, _)
ISqrtFrom(x, r) == IF (r + 1) * (r + 1) > x THEN r ELSE ISqrtFrom(x, r + 1)
RECURSIVE ISqrt(_)
\* floor of the square root, by halving
ISqrt(x) == IF x < 4 THEN ISqrtFrom(x, 0)
            ELSE LET h == 2 * ISqrt(x \div 4)
                 IN  IF (h + 1) * (h + 1) <= x THEN h + 1 ELSE h

(* ------------------------------ calendar ------------------------------- *)
\* datetime / timedelta arithmetic of the standard library; a timestamp is
\* the proleptic Gregorian ordinal of its day (datetime.toordinal)
IsLeap(y) == (y % 4 = 0 /\ y % 100 # 0) \/ y % 400 = 0
DaysInYear(y) == IF IsLeap(y) THEN 366 ELSE 365
DaysInMonth(y, m) ==
    IF m = 2 THEN (IF IsLeap(y) THEN 29 ELSE 28)
    ELSE IF m \in {4, 6, 9, 11} THEN 30 ELSE 31

RECURSIVE DaysBeforeMonth(_, _)
DaysBeforeMonth(y, m) ==
    IF m = 1 THEN 0 ELSE DaysBeforeMonth(y, m - 1) + DaysInMonth(y, m - 1)

\* the days before January 1st of year y
DaysBeforeYear(y) ==
    (y - 1) * 365 + ((y - 1) \div 4) - ((y - 1) \div 100) + ((y - 1) \div 400)

\* datetime(year, month, day) raises ValueError for a day the month lacks
ValidDate(y, m, d) == m \in 1..12 /\ d \in 1..DaysInMonth(y, m)
\* tm_yday / dt.dayofyear of a calendar date
DayOfYear(y, m, d) == DaysBeforeMonth(y, m) + d
Ordinal(y, m, d) == DaysBeforeYear(y) + DayOfYear(y, m, d)

\* the year of a timestamp
YearOfOrd(t) ==
    LET y == ((t * 400) \div 146097) + 1
    IN  IF t <= DaysBeforeYear(y) THEN y - 1
        ELSE IF t > DaysBeforeYear(y + 1) THEN y + 1 ELSE y
\* time.dt.dayofyear of a timestamp
DoyOf(t) == t - DaysBeforeYear(YearOfOrd(t))

(* ---------------------------- data source ------------------------------ *)
\* self.parameters, in order
Parameters == <<"PRECTOTCORR", "T2M", "RH2M", "CLOUD_AMT",
                "WS10M", "ALLSKY_SFC_SW_DWN", "T2MDEW">>
NVars == Len(Parameters)

\* missing value of the numeric arrays
NaN == 0 - 999999

\* What the data source holds.  One record per day stands for the day's
\* hourly records.  Values, in 1e-2 physical units: "constant" gives every day
\* of every year the same values, "varying" changes precipitation and
\* temperature from day to day.  Holdings: "all" has every day; "gappy" lacks,
\* in even years, the last day of the requested range; "split" has, of a
\* requested range, only the last day in leap years and all but the last day
\* in other years.  A range of one day is always held.
Values == {"constant", "varying"}
Holdings == {"all", "gappy", "split"}
Worlds == [values : Values, holdings : Holdings]
BaseValue == <<10, 5990, 5000, 10000, 0, 20000, 1000>>
Val(world, t, v) ==
    IF world.values = "constant" THEN BaseValue[v]
    ELSE IF v = 1 THEN BaseValue[v] + 10 * (t % 2)
    ELSE IF v = 2 THEN BaseValue[v] + 10 * (t % 3)
    ELSE BaseValue[v]

\* the time axis of the dataset a successful request for start..end of the
\* given year returns
Held(world, year, start, end) ==
    IF world.holdings = "all" \/ start = end THEN start..end
    ELSE IF world.holdings = "gappy"
         THEN (IF year % 2 = 0 THEN start..(end - 1) ELSE start..end)
    ELSE IF IsLeap(year) THEN {end} ELSE start..(end - 1)

(* ----------------------- fetch_multi_year_data ------------------------- *)
\* range(end_year - years_back + 1, end_year + 1)
YearRange(end_year, years_back) == (end_year - years_back + 1)..end_year

\* the request of one year: base_date -/+ timedelta(days=days_window)
StartOf(year, month, day, days_window) == Ordinal(year, month, day) - days_window
EndOf(year, month, day, days_window) == Ordinal(year, month, day) + days_window

\* xr.concat(all_years_ds, dim="year"): the datasets in the given order along
\* the year dimension; the time index is the union of their time indexes
\* (outer join), a year's values at another year's timestamps being missing.
\* NoneDs stands for combined = None.
NoneDs == [none |-> TRUE, year |-> <<>>, own |-> <<>>, time |-> {}]
\* a variant that returns a dataset even when no year was collected
ConcatAlways(years, own) ==
    [none |-> FALSE, year |-> years, own |-> own,
     time |-> UNION {own[i] : i \in 1..Len(years)}]
Concat(years, own) ==
    IF years = <<>> THEN NoneDs
    ELSE [none |-> FALSE, year |-> years, own |-> own,
          time |-> UNION {own[i] : i \in 1..Len(years)}]

(* ------------------------- prepare_daily_data -------------------------- *)
\* combined_ds.assign_coords(dayofyear=("time", time.dt.dayofyear))
AssignCoords(cmb) ==
    [none |-> cmb.none, year |-> cmb.year, own |-> cmb.own, time |-> cmb.time,
     dayofyear |-> Arr([t \in cmb.time |-> DoyOf(t)])]

\* doys_in_year of year index i: ds_y = combined_ds.sel(year=y) keeps the whole
\* time index of the combined dataset
DoysInYear(ds, i) == {ds.dayofyear[t] : t \in ds.time}

\* set.intersection(*doys_per_year), sorted
CommonDoys(ds) ==
    LET doys_per_year == Arr([i \in 1..Len(ds.year) |-> DoysInYear(ds, i)])
    IN  SortedSeq({d \in doys_per_year[1] :
                      \A i \in 1..Len(ds.year) : d \in doys_per_year[i]})

RECURSIVE SumVal(_, _, _)
SumVal(world, T, v) ==
    IF T = {} THEN 0
    ELSE LET t == CHOOSE x \in T : TRUE
         IN  Val(world, t, v) + SumVal(world, T \ {t}, v)

\* groupby('time.dayofyear').mean(dim='time') of year index i at day d: the
\* mean of the year's own records of that day-of-year, missing when it has none
DailyMean(world, ds, i, d) ==
    LET T == {t \in ds.own[i] : ds.dayofyear[t] = d}
    IN  [v \in 1..NVars |->
            IF T = {} THEN NaN ELSE SumVal(world, T, v) \div Cardinality(T)]

\* X_raw before imputation
RawTensor(world, ds, doys) ==
    Arr([i \in 1..Len(ds.year) |->
            [k \in 1..Len(doys) |-> DailyMean(world, ds, i, doys[k])]])

\* np.nanmean(var_data): the mean of the entries that are not missing
NanMean(X, v) ==
    LET total == SumSeq([i \in 1..Len(X) |-> SumSeq([k \in 1..Len(X[i]) |->
                     IF X[i][k][v] = NaN THEN 0 ELSE X[i][k][v]])])
        count == SumSeq([i \in 1..Len(X) |-> SumSeq([k \in 1..Len(X[i]) |->
                     IF X[i][k][v] = NaN THEN 0 ELSE 1])])
    IN  IF count = 0 THEN NaN ELSE total \div count

\* a variant that fills a missing entry with the mean of its own year only
ImputeYearMean(X) ==
    Arr([i \in DOMAIN X |-> [k \in DOMAIN X[i] |-> [v \in 1..NVars |->
            IF X[i][k][v] = NaN THEN NanMean(<<X[i]>>, v) ELSE X[i][k][v]]]])

\* np.nan_to_num(var_data, nan=var_mean), for every variable
Impute(X) ==
    LET m == Arr([v \in 1..NVars |-> NanMean(X, v)])
    IN  Arr([i \in DOMAIN X |-> [k \in DOMAIN X[i] |-> [v \in 1..NVars |->
                IF X[i][k][v] = NaN THEN m[v] ELSE X[i][k][v]]]])

\* a variant that keeps a year dimension of length one
KeepYearDim(cmb) == cmb @@ [has_year |-> TRUE]

\* combined_ds.squeeze(drop=True): a year dimension of length one is dropped
\* together with its coordinate
Squeeze(cmb) == cmb @@ [has_year |-> Len(cmb.year) # 1]

\* prepare_daily_data: (X_raw, common_doys, years), or the KeyError of
\* combined_ds['year'] when the squeeze has dropped the year dimension
PrepareDailyData(world, cmb) ==
    IF ~Squeeze(cmb).has_year
    THEN [err |-> "KeyError", X_raw |-> <<>>, common_doys |-> <<>>, years |-> <<>>]
    ELSE LET ds   == AssignCoords(cmb)
             doys == CommonDoys(ds)
         IN  [err |-> "", X_raw |-> Impute(RawTensor(world, ds, doys)),
              common_doys |-> doys, years |-> cmb.year]

(* ------------------------- build_state_vectors ------------------------- *)
\* a variant that flattens variable first, then day
StateVectorByVariable(X_raw, i, c, days_window) ==
    [j \in 1..((2 * days_window + 1) * NVars) |->
        X_raw[i][c + ((j - 1) % (2 * days_window + 1))]
             [((j - 1) \div (2 * days_window + 1)) + 1]]

\* window_slice.flatten(): day order first, then variable order
StateVector(X_raw, i, c, days_window) ==
    [j \in 1..((2 * days_window + 1) * NVars) |->
        X_raw[i][c + ((j - 1) \div NVars)][((j - 1) % NVars) + 1]]

\* X_state[y_idx][d_idx - days_window], or the ValueError of np.zeros for a
\* negative dimension
BuildStateVectors(X_raw, n_days, days_window) ==
    LET n_valid_days == n_days - 2 * days_window
    IN  IF n_valid_days < 0 THEN [err |-> "ValueError", X_state |-> <<>>]
        ELSE [err |-> "",
              X_state |-> Arr([i \in 1..Len(X_raw) |->
                                  [c \in 1..n_valid_days |->
                                      StateVector(X_raw, i, c, days_window)]])]

\* a variant that takes the leading days: common_doys[: n - 2 * days_window]
SliceLeading(common_doys, days_window) ==
    Arr([k \in 1..Max(Len(common_doys) - 2 * days_window, 0) |-> common_doys[k]])

\* common_doys[days_window : -days_window]
SliceValid(common_doys, days_window) ==
    LET n     == Len(common_doys)
        start == Min(days_window, n)
        stop  == IF days_window = 0 THEN 0 ELSE Max(n - days_window, 0)
    IN  IF stop <= start THEN <<>>
        ELSE Arr([k \in 1..(stop - start) |-> common_doys[start + k]])

(* --------------------------- compute_weights --------------------------- *)
AlphaYear == 5
AlphaDay == 2
\* fixed-point scales: observations 1e-2, weights 1e-4
VScale == 10 * 10
WScale == 100 * 100
\* np.exp(-0.1 * n), in 1e-4
ExpTable ==
    <<10000, 9048, 8187, 7408, 6703, 6065, 5488, 4966, 4493, 4066,
       3679, 3329, 3012, 2725, 2466, 2231, 2019, 1827, 1653, 1496,
       1353, 1225, 1108, 1003, 907, 821, 743, 672, 608, 550,
       498, 450, 408, 369, 334, 302, 273, 247, 224, 202,
       183, 166, 150, 136, 123, 111, 101, 91, 82, 74,
       67, 61, 55, 50, 45, 41, 37, 33, 30, 27,
       25, 22, 20, 18, 17, 15, 14, 12, 11, 10,
       9, 8, 7, 7, 6, 6, 5, 5, 4, 4,
       3, 3, 3, 2, 2, 2, 2, 2, 2, 1,
       1, 1, 1, 1, 1, 1, 1, 1, 1, 1>>
ExpNeg(alpha, dist) ==
    IF alpha * dist + 1 > Len(ExpTable) THEN 0 ELSE ExpTable[alpha * dist + 1]

\* a variant that leaves the weights as they are
Unnormalized(W) == W
\* W / W.sum()
Normalize(W) ==
    LET s == SumSeq(W)
    IN  Arr([i \in 1..Len(W) |-> (W[i] * WScale) \div s])

\* np.exp(-alpha * dist) / np.exp(-alpha * dist).sum(): the quotient is taken
\* relative to the smallest distance, which leaves it unchanged and keeps the
\* fixed-point exponentials of far days from vanishing together
ExpWeights(alpha, dist) ==
    LET m == CHOOSE x \in Range(dist) : \A y \in Range(dist) : x <= y
    IN  Normalize(Arr([i \in 1..Len(dist) |-> ExpNeg(alpha, dist[i] - m)]))

\* a variant that measures the distance around the year
CircularDistance(doy, target_doy) ==
    Min(Abs(doy - target_doy), 365 - Abs(doy - target_doy))
\* np.abs(np.array(doys) - target_doy), one entry
DayDistance(doy, target_doy) == Abs(doy - target_doy)

ComputeWeights(years, target_year, doys, target_doy) ==
    LET dist_year == Arr([i \in 1..Len(years) |-> Abs(years[i] - target_year)])
        dist_day  == Arr([k \in 1..Len(doys) |->
                             DayDistance(doys[k], target_doy)])
        W_year    == ExpWeights(AlphaYear, dist_year)
        W_day     == ExpWeights(AlphaDay, dist_day)
    IN  [W_year |-> W_year, W_day |-> W_day,
         W_combined |-> Arr([i \in 1..Len(years) |-> [k \in 1..Len(doys) |->
                            (W_year[i] * W_day[k]) \div WScale]])]

\* ndarray.reshape(-1, n) / ravel(): row-major flattening of a matrix
Flatten(M) ==
    IF Len(M) = 0 THEN <<>>
    ELSE LET n == Len(M[1])
         IN  Arr([r \in 1..(Len(M) * n) |->
                     M[((r - 1) \div n) + 1][((r - 1) % n) + 1]])

(* ----------------------------- weighted_pca ---------------------------- *)
VarThresholdPct == 95

\* np.average(X, axis=0, weights=w)[j]
WeightedMean(X, w, j) ==
    SumSeq([i \in 1..Len(X) |-> w[i] * X[i][j]]) \div SumSeq(w)

\* Sigma = Xc.T @ (Xc * w[:, None]), symmetrised; in 1e-8
Covariance(X, w, mu, n_features) ==
    LET Xc == Arr([i \in 1..Len(X) |-> [a \in 1..n_features |-> X[i][a] - mu[a]]])
        S  == [a \in 1..n_features |-> [b \in 1..n_features |->
                  SumSeq([i \in 1..Len(X) |-> Xc[i][a] * (Xc[i][b] * w[i])])]]
    IN  [a \in 1..n_features |-> [b \in 1..n_features |->
            (S[a][b] + S[b][a]) \div 2]]

\* The symmetric eigensolver np.linalg.eigh, by its contract: eigenvalues in
\* ascending order that sum to the trace, with orthonormal eigenvectors.  The
\* spectrum of a symmetric matrix lies, in majorisation order, between its
\* diagonal and (0, .., 0, trace); the two solvers return these two ends, with
\* the coordinate axes as eigenvectors (exact for a diagonal matrix, so for
\* the zero matrix).  A solver is a function: the same matrix gives the same
\* answer.
Solvers == {"axis", "rank1"}
Eigh(Sigma, solver) ==
    LET n     == Len(Sigma)
        diag  == Arr([a \in 1..n |-> Sigma[a][a]])
        rank  == Arr([a \in 1..n |->
                    Cardinality({b \in 1..n : diag[b] < diag[a]
                                     \/ (diag[b] = diag[a] /\ b < a)}) + 1])
        axis  == Arr([r \in 1..n |-> CHOOSE a \in 1..n : rank[a] = r])
        trace == SumSeq(diag)
    IN  [eigvals |-> Arr([r \in 1..n |->
                        IF solver = "axis" THEN diag[axis[r]]
                        ELSE IF r = n THEN trace ELSE 0]),
         eigvecs |-> Arr([r \in 1..n |-> [a \in 1..n |->
                        IF a = axis[r] THEN 1 ELSE 0]])]

\* a variant without the reversal: the indexes of v by ascending value
ArgsortAsc(v) ==
    LET n    == Len(v)
        rank == Arr([a \in 1..n |->
                    Cardinality({b \in 1..n : v[b] < v[a]
                                     \/ (v[b] = v[a] /\ b < a)}) + 1])
    IN  Arr([r \in 1..n |-> CHOOSE a \in 1..n : rank[a] = r])

\* np.argsort(v)[::-1]: the indexes of v by descending value
ArgsortDesc(v) ==
    LET n    == Len(v)
        rank == Arr([a \in 1..n |->
                    Cardinality({b \in 1..n : v[b] < v[a]
                                     \/ (v[b] = v[a] /\ b < a)}) + 1])
    IN  Arr([r \in 1..n |-> CHOOSE a \in 1..n : rank[a] = n + 1 - r])

\* np.cumsum
CumSum(v) == Arr([i \in 1..Len(v) |-> SumSeq(SubSeq(v, 1, i))])

\* np.searchsorted(cumvar, var_threshold) + 1, cumvar being
\* cumsum(eigvals / (total_var + 1e-16)): the entries below the threshold are
\* those with 100 * cum <= pct * total_var, the 1e-16 making the comparison
\* with an equal value strict
SearchSortedPlus1(cum, total_var, pct) ==
    Cardinality({i \in 1..Len(cum) : 100 * cum[i] <= pct * total_var}) + 1

\* k = max(1, min(searchsorted(cumvar, var_threshold) + 1, n_features)) for
\* the eigenvalues in descending order and var_threshold = pct / 100
SelectK(eigvals, pct, n_features) ==
    Max(1, Min(SearchSortedPlus1(CumSum(eigvals), SumSeq(eigvals), pct),
               n_features))

\* An eigenvalue after regularisation is hi * 1e-8 + lo * 1e-16
EigScale == WScale * VScale * VScale
EpsReg(total_var) ==
    IF total_var > 0
    THEN [hi |-> total_var \div EigScale, lo |-> total_var % EigScale]
    ELSE [hi |-> 1, lo |-> 0]
\* a variant that leaves the eigenvalue as it is
UnflooredEig(eigval, eps) == [hi |-> eigval, lo |-> 0]
\* np.maximum(eigval, eps_reg)
MaxEig(eigval, eps) ==
    IF eigval > eps.hi \/ (eigval = eps.hi /\ eps.lo = 0)
    THEN [hi |-> eigval, lo |-> 0] ELSE eps

NoPca == [err |-> "", eigvals_k |-> <<>>, eigvecs_k |-> <<>>, mu |-> <<>>, k |-> 0]

\* weighted_pca(X, weights): (eigvals_k, eigvecs_k, mu, k); np.average raises
\* ValueError when the weights do not match the rows and ZeroDivisionError
\* when they sum to zero
WeightedPca(X, weights, n_features, solver) ==
    IF Len(weights) # Len(X) THEN [NoPca EXCEPT !.err = "ValueError"]
    ELSE IF SumSeq(weights) = 0 THEN [NoPca EXCEPT !.err = "ZeroDivisionError"]
    ELSE
    LET w         == Normalize(weights)
        mu        == Arr([j \in 1..n_features |-> WeightedMean(X, w, j)])
        Sigma     == Covariance(X, w, mu, n_features)
        eig       == Eigh(Sigma, solver)
        idx       == ArgsortDesc(eig.eigvals)
        eigvals   == Arr([r \in 1..n_features |-> eig.eigvals[idx[r]]])
        eigvecs   == Arr([r \in 1..n_features |-> eig.eigvecs[idx[r]]])
        total_var == SumSeq(eigvals)
        k         == SelectK(eigvals, VarThresholdPct, n_features)
        eps_reg   == EpsReg(total_var)
    IN  [err |-> "",
         eigvals_k |-> [r \in 1..k |-> MaxEig(eigvals[r], eps_reg)],
         eigvecs_k |-> [r \in 1..k |-> eigvecs[r]],
         mu |-> mu, k |-> k]

(* ------------------- generate_ensemble, apply_constraints -------------- *)
\* The process-wide generator of numpy.random: its state is the seed it was
\* last given and how many values it has produced since.  Normal(g) is the
\* standard normal value it produces next, on the grid -2..2.
Seeded(seed) == [seed |-> seed, pos |-> 0]
Normal(g) == ((3 * g.seed + 2 * g.pos + (g.pos \div 5)) % 5) - 2
Advance(g, n) == [g EXCEPT !.pos = g.pos + n]

\* pc_samples = np.random.normal(0, pc_std[None, :], (N_mc, n_components)),
\* filled row by row; in 1e-4
PcSamples(eigvals_k, N_mc, g) ==
    LET n_components == Len(eigvals_k)
        pc_std       == Arr([j \in 1..n_components |-> ISqrt(eigvals_k[j].hi)])
    IN  Arr([n \in 1..N_mc |-> [j \in 1..n_components |->
                pc_std[j] * Normal(Advance(g, (n - 1) * n_components + (j - 1)))]])

\* clip_dict, in physical units; NoBound stands for None
NoBound == 0 - 999
ClipLo == <<0, 0 - 80, 0, 0, 0, 0, 0 - 80>>
ClipHi == <<NoBound, 60, 100, 100, NoBound, NoBound, 60>>
EnsScale == 100 * 100
ValToEns == EnsScale \div VScale

\* apply_constraints on one value of variable vi
Clip(x, vi) ==
    LET lo == Max(x, ClipLo[vi] * EnsScale)
    IN  IF ClipHi[vi] = NoBound THEN lo ELSE Min(lo, ClipHi[vi] * EnsScale)

\* a variant that leaves the array as it is
Unconstrained(samples) == samples

\* a variant that rejects the members with a value out of range
RejectOutOfRange(samples) ==
    LET Within(member) == \A vi \in 1..NVars : Clip(member[vi], vi) = member[vi]
    IN  SelectSeq(samples, Within)

\* apply_constraints(samples): in place on the array it is given
ApplyConstraints(samples) ==
    [n \in 1..Len(samples) |-> [vi \in 1..NVars |-> Clip(samples[n][vi], vi)]]

\* generate_ensemble before apply_constraints: X_samples = pc_samples @
\* eigvecs_k.T + mu and the centre day's slice of it; in 1e-4
CenterSlice(pc_samples, eigvecs_k, mu, n_vars, days_window) ==
    LET n_components == Len(eigvecs_k)
        start_idx    == days_window * n_vars
        X_samples    == [n \in 1..Len(pc_samples) |-> [a \in 1..Len(mu) |->
                            SumSeq([j \in 1..n_components |->
                                pc_samples[n][j] * eigvecs_k[j][a]])
                            + mu[a] * ValToEns]]
    IN  [n \in 1..Len(pc_samples) |-> [vi \in 1..n_vars |->
            X_samples[n][start_idx + vi]]]

\* generate_ensemble: the centre slice, clipped in place, is what it returns
CenterSamples(pc_samples, eigvecs_k, mu, n_vars, days_window) ==
    ApplyConstraints(CenterSlice(pc_samples, eigvecs_k, mu, n_vars, days_window))

(* ----------------------------- statistics ------------------------------ *)
RECURSIVE Insert(_, _)
Insert(x, s) == IF s = <<>> THEN <<x>>
                ELSE IF x <= Head(s) THEN <<x>> \o s
                ELSE <<Head(s)>> \o Insert(x, Tail(s))
RECURSIVE Sort(_)
Sort(s) == IF s = <<>> THEN <<>> ELSE Insert(Head(s), Sort(Tail(s)))

Column(samples, vi) == Arr([n \in 1..Len(samples) |-> samples[n][vi]])

\* np.mean
Mean(xs) == SumSeq(xs) \div Len(xs)
\* a variant that interpolates in the order of the members
PercentileUnsorted(xs, q) ==
    LET pos  == (Len(xs) - 1) * q
        lo   == pos \div 100
        frac == pos % 100
    IN  IF frac = 0 THEN xs[lo + 1]
        ELSE xs[lo + 1] + (frac * (xs[lo + 2] - xs[lo + 1])) \div 100

\* np.percentile(xs, q), linear interpolation
Percentile(xs, q) ==
    LET s    == Sort(xs)
        pos  == (Len(xs) - 1) * q
        lo   == pos \div 100
        frac == pos % 100
    IN  IF frac = 0 THEN s[lo + 1]
        ELSE s[lo + 1] + (frac * (s[lo + 2] - s[lo + 1])) \div 100
\* a variant that takes the median of the members and one zero entry
MedianPadded(xs) == Percentile(<<0>> \o xs, 50)
\* np.median
Median(xs) == Percentile(xs, 50)
\* np.std: population standard deviation
Std(xs) ==
    LET m == Mean(xs)
    IN  ISqrt(SumSeq([n \in 1..Len(xs) |-> (xs[n] - m) * (xs[n] - m)]) \div Len(xs))

RainThreshold == EnsScale \div 10
\* a variant that counts a member at the threshold as rain
RainProbabilityInclusive(samples) ==
    (Cardinality({n \in 1..Len(samples) : samples[n][1] >= RainThreshold}) * EnsScale)
        \div Len(samples)
\* np.mean(center_samples[:, precip_idx] > 0.1), in 1e-4
RainProbability(samples) ==
    (Cardinality({n \in 1..Len(samples) : samples[n][1] > RainThreshold}) * EnsScale)
        \div Len(samples)

VarMapping == <<"precipitation", "temperature", "humidity", "cloud_cover",
                "wind_speed", "solar_radiation", "dew_point">>

\* the results dict of predict
Summarize(samples, N_mc, n_components, target) ==
    [metadata |-> [target_date |-> target, n_ensemble |-> N_mc,
                   n_components |-> n_components],
     predictions |-> [vi \in 1..NVars |->
         LET xs == Column(samples, vi)
         IN  [name |-> VarMapping[vi], mean |-> Mean(xs), median |-> Median(xs),
              std |-> Std(xs), p5 |-> Percentile(xs, 5), p95 |-> Percentile(xs, 95)]],
     probability |-> RainProbability(samples)]

(* --------------------------- classify_weather -------------------------- *)
\* The means classify_weather reads, in tenths of their units (probability in
\* tenths of 1): every threshold of the rules with a value at it and one
\* beyond it.
TempMeans == {0 - 5, 0, 250, 260, 300, 310}
PrecipMeans == {0, 5, 6, 50, 51, 200, 201}
PrecipProbs == {0, 3, 4, 5, 6}
CloudMeans == {200, 210, 500, 510, 800, 810}
WindMeans == {150, 151}
HumidityMeans == {290, 300, 850, 860}
Forecasts ==
    [temperature : TempMeans, precipitation : PrecipMeans,
     probability : PrecipProbs, cloud_cover : CloudMeans,
     wind_speed : WindMeans, humidity : HumidityMeans]
NoForecast == [temperature |-> 0, precipitation |-> 0, probability |-> 0,
               cloud_cover |-> 0, wind_speed |-> 0, humidity |-> 0]
NoLabel == [classification |-> <<>>, short_desc |-> <<>>]

\* the primary weather determination: (classification, short_desc)
PrimaryWeather(temp, precip, precip_prob, clouds) ==
    IF precip > 50 /\ precip_prob > 5
    THEN IF temp < 0 THEN <<"snowy", "Expect snowfall">>
         ELSE IF precip > 200 THEN <<"heavy_rain", "Heavy rainfall expected">>
         ELSE <<"rainy", "Rainy conditions">>
    ELSE IF precip > 5 /\ precip_prob > 3
         THEN <<"light_rain", "Light rain possible">>
    ELSE IF clouds > 800 THEN <<"overcast", "Overcast skies">>
    ELSE IF clouds > 500 THEN <<"cloudy", "Mostly cloudy">>
    ELSE IF clouds > 200 THEN <<"partly_cloudy", "Partly cloudy">>
    ELSE IF temp > 300 THEN <<"hot", "Hot and sunny">>
    ELSE <<"clear", "Clear skies">>

\* a variant that tests the light-rain rule before the heavy one
LightRainFirst(p) ==
    LET primary == IF p.precipitation > 5 /\ p.probability > 3
                   THEN <<"light_rain", "Light rain possible">>
                   ELSE PrimaryWeather(p.temperature, p.precipitation,
                                       p.probability, p.cloud_cover)
        windy   == p.wind_speed > 150
    IN  [classification |-> IF windy THEN <<"windy_", primary[1]>>
                            ELSE <<primary[1]>>,
         short_desc |-> (IF windy THEN <<"Windy with ", primary[2]>>
                         ELSE <<primary[2]>>)
                        \o (IF p.humidity > 850 /\ p.temperature > 250
                            THEN <<" and humid">>
                            ELSE IF p.humidity < 300 THEN <<" and dry">>
                            ELSE <<>>)]

\* classify_weather(predictions): the classification and the short
\* description, each as the sequence of the pieces the code concatenates
ClassifyWeather(p) ==
    LET primary == PrimaryWeather(p.temperature, p.precipitation,
                                  p.probability, p.cloud_cover)
        windy   == p.wind_speed > 150
    IN  [classification |-> IF windy THEN <<"windy_", primary[1]>>
                            ELSE <<primary[1]>>,
         short_desc |-> (IF windy THEN <<"Windy with ", primary[2]>>
                         ELSE <<primary[2]>>)
                        \o (IF p.humidity > 850 /\ p.temperature > 250
                            THEN <<" and humid">>
                            ELSE IF p.humidity < 300 THEN <<" and dry">>
                            ELSE <<>>)]

(* ------------------------------- state --------------------------------- *)
VARIABLES
    clients,    \* the threads of the process that call predict
    world,      \* what the data source holds
    solver,     \* which eigensolver answers np.linalg.eigh
    rng,        \* the process-wide generator of numpy.random
    pc,         \* per client: where its predict call stands
    args,       \* per client: the arguments of its call
    tasks,      \* per client: year -> the future of that year's fetch
    attempts,   \* per client: year -> requests sent to the data source
    raising,    \* per client: exception pending inside the executor block
    combined,   \* per client: combined_ds
    prep,       \* per client: what predict holds after weighted_pca
    samples,    \* per client: pc_samples and center_samples
    result,     \* per client: the dict predict returns
    err,        \* per client: the exception predict raised
    forecast,   \* the predictions dict given to classify_weather
    label,      \* what classify_weather returned for it
    arrived,    \* per client: the years of the finished futures, as they finished
    pca_call,   \* a call of weighted_pca on its own: arguments and return
    session     \* st.session_state of one browser session of the app

vars == <<clients, world, solver, rng, pc, args, tasks, attempts, raising,
          combined, prep, samples, result, err, forecast, label, arrived,
          pca_call, session>>

Clients == {"A", "B"}
Seeds == 1..NSeeds

\* The calls of the model.  Sampled: one date and history, every seed and
\* ensemble size.  Surveyed: every date, history length, window and flag, with
\* the first seed and the largest ensemble.  One client issues both kinds,
\* two concurrent clients the sampled ones and one surveyed call for a leap
\* day.
AllRequests ==
    [target : TargetDates, years_back : 1..MaxYearsBack,
     days_window : 0..MaxWindow, N_mc : 1..MaxN, random_seed : Seeds,
     include_current_year : BOOLEAN]
Sampled(a) ==
    /\ a.target = <<2013, 3, 1>>
    /\ a.years_back = 2
    /\ a.days_window = 1
    /\ ~a.include_current_year
Surveyed(a) == a.random_seed = 1 /\ a.N_mc = MaxN
LeapDay(a) ==
    /\ a.target = <<2012, 2, 29>>
    /\ a.years_back = 2
    /\ a.days_window = 1
    /\ ~a.include_current_year
Requests(cl) ==
    IF Cardinality(cl) = 1
    THEN {a \in AllRequests : Sampled(a) \/ Surveyed(a)}
    ELSE {a \in AllRequests : Sampled(a) \/ (Surveyed(a) /\ LeapDay(a))}

NoArgs == [target |-> <<0, 0, 0>>, years_back |-> 0, days_window |-> 0,
           N_mc |-> 0, random_seed |-> 0, include_current_year |-> FALSE]
NoTasks == <<>>
NoPrep == [X_raw |-> <<>>, common_doys |-> <<>>, years |-> <<>>,
           valid_doys |-> <<>>, n_rows |-> 0, w_all |-> <<>>,
           eigvals_k |-> <<>>, eigvecs_k |-> <<>>, mu |-> <<>>, k |-> 0,
           X_state |-> <<>>, W_year |-> <<>>, W_day |-> <<>>]
NoSamples == [pc_samples |-> <<>>, center_samples |-> <<>>]
NoResult == [metadata |-> <<>>, predictions |-> <<>>, probability |-> 0 - 1]

NoPcaCall == [X |-> <<>>, weights |-> <<>>, returned |-> FALSE, out |-> NoPca]
\* lines 24-43 of app.py; None is the empty sequence
NoSession == [location |-> <<>>, predictions |-> <<>>, raw_backend_data |-> <<>>,
              card_generated |-> FALSE, card_image |-> <<>>]

InitCall ==
    /\ pca_call = NoPcaCall
    /\ session = NoSession
    /\ pc = [c \in Clients |-> "idle"]
    /\ args = [c \in Clients |-> NoArgs]
    /\ tasks = [c \in Clients |-> NoTasks]
    /\ attempts = [c \in Clients |-> NoTasks]
    /\ raising = [c \in Clients |-> ""]
    /\ combined = [c \in Clients |-> NoneDs]
    /\ prep = [c \in Clients |-> NoPrep]
    /\ samples = [c \in Clients |-> NoSamples]
    /\ result = [c \in Clients |-> NoResult]
    /\ err = [c \in Clients |-> ""]
    /\ forecast = NoForecast
    /\ label = NoLabel
    /\ arrived = [c \in Clients |-> <<>>]

\* one client: predict calls one after the other
Init ==
    /\ clients = {"A"}
    /\ world \in Worlds
    /\ solver \in Solvers
    /\ rng = Seeded(0)
    /\ InitCall

\* two clients: predict calls that overlap
InitConcurrent ==
    /\ clients = Clients
    /\ world = [values |-> "varying", holdings |-> "all"]
    /\ solver = "axis"
    /\ rng = Seeded(0)
    /\ InitCall

(* ------------------------------- predict ------------------------------- *)
TargetYear(a) == a.target[1]
TargetMonth(a) == a.target[2]
TargetDay(a) == a.target[3]
\* target_date.timetuple().tm_yday
TargetDoy(a) == DayOfYear(a.target[1], a.target[2], a.target[3])
\* a variant that always ends the history with the target year
EndYearIsTarget(a) == TargetYear(a)
\* the last historical year
EndYear(a) == IF a.include_current_year THEN TargetYear(a) ELSE TargetYear(a) - 1

\* a variant of the entry of predict that leaves the generator as it is
PredictStartUnseeded(c) ==
    /\ c \in clients
    /\ pc[c] = "idle"
    /\ \E a \in Requests(clients) : args' = [args EXCEPT ![c] = a]
    /\ pc' = [pc EXCEPT ![c] = "seeded"]
    /\ UNCHANGED <<pca_call, session, forecast, label, arrived, clients, world, solver, rng,
                   tasks, attempts, raising, combined, prep, samples, result,
                   err>>

\* predict is entered and seeds the process-wide generator
PredictStart(c) ==
    /\ c \in clients
    /\ pc[c] = "idle"
    /\ \E a \in Requests(clients) :
          /\ args' = [args EXCEPT ![c] = a]
          /\ rng' = Seeded(a.random_seed)
    /\ pc' = [pc EXCEPT ![c] = "seeded"]
    /\ UNCHANGED <<pca_call, session, forecast, label, arrived, clients, world, solver, tasks,
                   attempts, raising, combined, prep, samples, result, err>>

(* ----------------------- fetch_multi_year_data ------------------------- *)
MaxWorkers == 8

\* the years the submission loop reaches before datetime(...) raises
SubmittedYears(a) ==
    {y \in YearRange(EndYear(a), a.years_back) :
        \A z \in YearRange(EndYear(a), a.years_back) :
            z <= y => ValidDate(z, TargetMonth(a), TargetDay(a))}

\* the loop of executor.submit: one future per year, until a date is invalid
SubmitFetches(c) ==
    /\ pc[c] = "seeded"
    /\ LET a  == args[c]
           ys == SubmittedYears(a)
       IN  /\ tasks' = [tasks EXCEPT ![c] =
                           [y \in ys |-> [st |-> "queued", time |-> {}]]]
           /\ attempts' = [attempts EXCEPT ![c] = [y \in ys |-> 0]]
           /\ raising' = [raising EXCEPT ![c] =
                           IF ys = YearRange(EndYear(a), a.years_back)
                           THEN "" ELSE "ValueError"]
    /\ pc' = [pc EXCEPT ![c] = "fetching"]
    /\ UNCHANGED <<pca_call, session, forecast, label, arrived, clients, world, solver, rng, args,
                   combined, prep, samples, result, err>>

Running(c) == {y \in DOMAIN tasks[c] : tasks[c][y].st = "running"}
Finished(c) == {y \in DOMAIN tasks[c] : tasks[c][y].st \in {"ok", "failed"}}
Succeeded(c) == {y \in DOMAIN tasks[c] : tasks[c][y].st = "ok"}
Failed(c) == {y \in DOMAIN tasks[c] : tasks[c][y].st = "failed"}

\* a worker thread takes the year's task and sends its request
WorkerStart(c, y) ==
    /\ pc[c] = "fetching"
    /\ y \in DOMAIN tasks[c]
    /\ tasks[c][y].st = "queued"
    /\ Cardinality(Running(c)) < MaxWorkers
    /\ tasks' = [tasks EXCEPT ![c][y].st = "running"]
    /\ attempts' = [attempts EXCEPT ![c][y] = @ + 1]
    /\ UNCHANGED <<pca_call, session, forecast, label, arrived, clients, world, solver, rng, pc,
                   args, raising, combined, prep, samples, result, err>>

\* fetch_power_point returns a dataset
FetchSucceeds(c, y) ==
    /\ pc[c] = "fetching"
    /\ y \in DOMAIN tasks[c]
    /\ tasks[c][y].st = "running"
    /\ LET a == args[c]
       IN  tasks' = [tasks EXCEPT ![c][y] =
               [st |-> "ok",
                time |-> Held(world, y,
                    StartOf(y, TargetMonth(a), TargetDay(a), a.days_window),
                    EndOf(y, TargetMonth(a), TargetDay(a), a.days_window))]]
    /\ arrived' = [arrived EXCEPT ![c] = Append(@, y)]
    /\ UNCHANGED <<pca_call, session, forecast, label, clients, world, solver, rng, pc, args,
                   attempts, raising, combined, prep, samples, result, err>>

\* a variant in which a failed request is queued again
FetchRetried(c, y) ==
    /\ pc[c] = "fetching"
    /\ y \in DOMAIN tasks[c]
    /\ tasks[c][y].st = "running"
    /\ tasks' = [tasks EXCEPT ![c][y].st = "queued"]
    /\ UNCHANGED <<pca_call, session, forecast, label, arrived, clients, world, solver, rng, pc,
                   args, attempts, raising, combined, prep, samples, result,
                   err>>

\* fetch_power_point catches the exception of its request and returns None
FetchFails(c, y) ==
    /\ pc[c] = "fetching"
    /\ y \in DOMAIN tasks[c]
    /\ tasks[c][y].st = "running"
    /\ tasks' = [tasks EXCEPT ![c][y].st = "failed"]
    /\ arrived' = [arrived EXCEPT ![c] = Append(@, y)]
    /\ UNCHANGED <<pca_call, session, forecast, label, clients, world, solver, rng, pc, args,
                   attempts, raising, combined, prep, samples, result, err>>

\* a variant that takes the successful years in the order they finished
ArrivedYears(c) ==
    LET Ok(y) == y \in Succeeded(c)
    IN  SelectSeq(arrived[c], Ok)
\* a variant that collects every submitted year
EveryTaskYear(c) == SortedSeq(DOMAIN tasks[c])
\* the years whose future returned a dataset, in the order of the task list
CollectedYears(c) == SortedSeq(Succeeded(c))

\* a variant that combines what has arrived without waiting for the rest
CollectEarly(c) ==
    /\ pc[c] = "fetching"
    /\ raising[c] = ""
    /\ LET ys == CollectedYears(c)
       IN  combined' = [combined EXCEPT ![c] =
               Concat(ys, [i \in 1..Len(ys) |-> tasks[c][ys[i]].time])]
    /\ pc' = [pc EXCEPT ![c] = "fetched"]
    /\ arrived' = [arrived EXCEPT ![c] = <<>>]
    /\ UNCHANGED <<pca_call, session, forecast, label, clients, world, solver, rng, args, tasks,
                   attempts, raising, prep, samples, result, err>>

\* the loop over future.result(), the concat and the return of
\* fetch_multi_year_data, once every future is done
Collect(c) ==
    /\ pc[c] = "fetching"
    /\ raising[c] = ""
    /\ Finished(c) = DOMAIN tasks[c]
    /\ LET ys == CollectedYears(c)
       IN  combined' = [combined EXCEPT ![c] =
               Concat(ys, [i \in 1..Len(ys) |-> tasks[c][ys[i]].time])]
    /\ pc' = [pc EXCEPT ![c] = "fetched"]
    /\ arrived' = [arrived EXCEPT ![c] = <<>>]
    /\ UNCHANGED <<pca_call, session, forecast, label, clients, world, solver, rng, args, tasks,
                   attempts, raising, prep, samples, result, err>>

\* the executor block is left by the pending exception once the submitted
\* futures are done; predict does not catch it
AbortFetches(c) ==
    /\ pc[c] = "fetching"
    /\ raising[c] # ""
    /\ Finished(c) = DOMAIN tasks[c]
    /\ pc' = [pc EXCEPT ![c] = "error"]
    /\ err' = [err EXCEPT ![c] = raising[c]]
    /\ arrived' = [arrived EXCEPT ![c] = <<>>]
    /\ UNCHANGED <<pca_call, session, forecast, label, clients, world, solver, rng, args, tasks,
                   attempts, raising, combined, prep, samples, result>>

(* ------------------- predict, after the fetch returns ------------------ *)
\* predict from "if combined_ds is None" to weighted_pca: what it holds
\* afterwards, or the exception that ends it
Pipeline(w, s, a, cmb) ==
    IF cmb.none THEN NoPrep @@ [err |-> "RuntimeError"]
    ELSE
    LET daily == PrepareDailyData(w, cmb)
    IN  IF daily.err # "" THEN NoPrep @@ [err |-> daily.err]
        ELSE
        LET built == BuildStateVectors(daily.X_raw, Len(daily.common_doys),
                                       a.days_window)
        IN  IF built.err # ""
            THEN [NoPrep EXCEPT !.X_raw = daily.X_raw,
                                !.common_doys = daily.common_doys,
                                !.years = daily.years] @@ [err |-> built.err]
            ELSE
            LET valid_doys == SliceValid(daily.common_doys, a.days_window)
                wts   == ComputeWeights(daily.years, TargetYear(a), valid_doys,
                                        TargetDoy(a))
                X_all == Flatten(built.X_state)
                w_all == Flatten(wts.W_combined)
                pca   == WeightedPca(X_all, w_all,
                                     (2 * a.days_window + 1) * NVars, s)
            IN  [err |-> pca.err, X_raw |-> daily.X_raw,
                 common_doys |-> daily.common_doys, years |-> daily.years,
                 valid_doys |-> valid_doys, n_rows |-> Len(X_all),
                 w_all |-> w_all, eigvals_k |-> pca.eigvals_k,
                 eigvecs_k |-> pca.eigvecs_k, mu |-> pca.mu, k |-> pca.k,
                 X_state |-> built.X_state, W_year |-> wts.W_year,
                 W_day |-> wts.W_day]

StripErr(p) == [f \in (DOMAIN p) \ {"err"} |-> p[f]]

Prepare(c) ==
    /\ pc[c] = "fetched"
    /\ LET p == Pipeline(world, solver, args[c], combined[c])
       IN  /\ prep' = [prep EXCEPT ![c] = StripErr(p)]
           /\ err' = [err EXCEPT ![c] = p.err]
           /\ pc' = [pc EXCEPT ![c] = IF p.err = "" THEN "prepared" ELSE "error"]
    /\ UNCHANGED <<pca_call, session, forecast, label, arrived, clients, world, solver, rng, args,
                   tasks, attempts, raising, combined, samples, result>>

\* generate_ensemble: draws from the process-wide generator
GenerateEnsemble(c) ==
    /\ pc[c] = "prepared"
    /\ LET p   == prep[c]
           a   == args[c]
           pcs == PcSamples(p.eigvals_k, a.N_mc, rng)
       IN  /\ samples' = [samples EXCEPT ![c] =
                  [pc_samples |-> pcs,
                   center_samples |-> CenterSamples(pcs, p.eigvecs_k, p.mu,
                                                    NVars, a.days_window)]]
           /\ rng' = Advance(rng, a.N_mc * Len(p.eigvals_k))
    /\ pc' = [pc EXCEPT ![c] = "sampled"]
    /\ UNCHANGED <<pca_call, session, forecast, label, arrived, clients, world, solver, args,
                   tasks, attempts, raising, combined, prep, result, err>>

\* the statistics and the return of predict
Finish(c) ==
    /\ pc[c] = "sampled"
    /\ result' = [result EXCEPT ![c] =
           Summarize(samples[c].center_samples, args[c].N_mc, prep[c].k,
                     args[c].target)]
    /\ pc' = [pc EXCEPT ![c] = "done"]
    /\ UNCHANGED <<pca_call, session, forecast, label, arrived, clients, world, solver, rng, args,
                   tasks, attempts, raising, combined, prep, samples, err>>

\* the caller has the result or the exception; the call's objects are gone
Return(c) ==
    /\ pc[c] \in {"done", "error"}
    /\ pc' = [pc EXCEPT ![c] = "idle"]
    /\ args' = [args EXCEPT ![c] = NoArgs]
    /\ tasks' = [tasks EXCEPT ![c] = NoTasks]
    /\ attempts' = [attempts EXCEPT ![c] = NoTasks]
    /\ raising' = [raising EXCEPT ![c] = ""]
    /\ combined' = [combined EXCEPT ![c] = NoneDs]
    /\ prep' = [prep EXCEPT ![c] = NoPrep]
    /\ samples' = [samples EXCEPT ![c] = NoSamples]
    /\ result' = [result EXCEPT ![c] = NoResult]
    /\ err' = [err EXCEPT ![c] = ""]
    /\ arrived' = [arrived EXCEPT ![c] = <<>>]
    /\ UNCHANGED <<pca_call, session, forecast, label, clients, world, solver, rng>>

\* the years a call of the model can fetch
AllYears ==
    UNION {YearRange(d[1] - 1, MaxYearsBack) \cup YearRange(d[1], MaxYearsBack) :
               d \in TargetDates}

Next ==
    \E c \in Clients :
        \/ PredictStart(c)
        \/ SubmitFetches(c)
        \/ \E y \in AllYears : WorkerStart(c, y)
        \/ \E y \in AllYears : FetchSucceeds(c, y)
        \/ \E y \in AllYears : FetchFails(c, y)
        \/ Collect(c)
        \/ AbortFetches(c)
        \/ Prepare(c)
        \/ GenerateEnsemble(c)
        \/ Finish(c)
        \/ Return(c)

Spec == Init /\ [][Next]_vars
SpecConcurrent == InitConcurrent /\ [][Next]_vars

(* ----------------- classify_weather on its own inputs ------------------ *)
\* no predict call is running; any forecast is about to be classified
InitClassify ==
    /\ clients = {}
    /\ world = [values |-> "constant", holdings |-> "all"]
    /\ solver = "axis"
    /\ rng = Seeded(0)
    /\ pc = [c \in Clients |-> "idle"]
    /\ args = [c \in Clients |-> NoArgs]
    /\ tasks = [c \in Clients |-> NoTasks]
    /\ attempts = [c \in Clients |-> NoTasks]
    /\ raising = [c \in Clients |-> ""]
    /\ combined = [c \in Clients |-> NoneDs]
    /\ prep = [c \in Clients |-> NoPrep]
    /\ samples = [c \in Clients |-> NoSamples]
    /\ result = [c \in Clients |-> NoResult]
    /\ err = [c \in Clients |-> ""]
    /\ forecast \in Forecasts
    /\ label = NoLabel
    /\ arrived = [c \in Clients |-> <<>>]
    /\ pca_call = NoPcaCall
    /\ session = NoSession

\* the call classify_weather(predictions)
Classify ==
    /\ label = NoLabel
    /\ label' = ClassifyWeather(forecast)
    /\ UNCHANGED <<pca_call, session, forecast, arrived, clients, world, solver, rng, pc, args,
                   tasks, attempts, raising, combined, prep, samples, result,
                   err>>

NextClassify == Classify
SpecClassify == InitClassify /\ [][NextClassify]_vars

(* ------------------- weighted_pca on its own inputs -------------------- *)
MaxRows == 2
MaxFeatures == 2
SampleValues == {0, 20}
WeightValues == {2500, 5000}
\* the sample matrices of at most MaxRows rows, each with its weights
SampleMatrices ==
    UNION {[1..n -> [1..MaxFeatures -> SampleValues]] : n \in 0..MaxRows}
WeightsFor(X) == [1..Len(X) -> WeightValues]

\* no predict call is running; weighted_pca is about to be called
InitPca ==
    /\ clients = {}
    /\ world = [values |-> "constant", holdings |-> "all"]
    /\ solver \in Solvers
    /\ rng = Seeded(0)
    /\ pc = [c \in Clients |-> "idle"]
    /\ args = [c \in Clients |-> NoArgs]
    /\ tasks = [c \in Clients |-> NoTasks]
    /\ attempts = [c \in Clients |-> NoTasks]
    /\ raising = [c \in Clients |-> ""]
    /\ combined = [c \in Clients |-> NoneDs]
    /\ prep = [c \in Clients |-> NoPrep]
    /\ samples = [c \in Clients |-> NoSamples]
    /\ result = [c \in Clients |-> NoResult]
    /\ err = [c \in Clients |-> ""]
    /\ forecast = NoForecast
    /\ label = NoLabel
    /\ arrived = [c \in Clients |-> <<>>]
    /\ session = NoSession
    /\ \E X \in SampleMatrices : \E w \in WeightsFor(X) :
          pca_call = [X |-> X, weights |-> w, returned |-> FALSE, out |-> NoPca]

\* the call weighted_pca(X, weights)
CallWeightedPca ==
    /\ ~pca_call.returned
    /\ pca_call' = [pca_call EXCEPT
           !.returned = TRUE,
           !.out = WeightedPca(pca_call.X, pca_call.weights, MaxFeatures, solver)]
    /\ UNCHANGED <<session, forecast, label, arrived, clients, world, solver,
                   rng, pc, args, tasks, attempts, raising, combined, prep,
                   samples, result, err>>

NextPca == CallWeightedPca
SpecPca == InitPca /\ [][NextPca]_vars

(* ------------------ app.py: the Predict Weather button ----------------- *)
\* how st.session_state.location was chosen
Locations == {"map", "coords"}
\* backend_results['predictions'] of a predict_weather call that returned: the
\* means in tenths and the rain probability in tenths
BackendResults ==
    [temperature : {250, 310}, precipitation : {0, 60}, probability : {0, 6},
     cloud_cover : {200, 810}, wind_speed : {150}, humidity : {300},
     solar_radiation : {0, 1600}]
\* the result for a history in which a variable has no observation at all:
\* np.nanmean is NaN (data_fetching.py line 115), the covariance is NaN, and
\* where the eigensolver hands the NaN on instead of raising, every statistic
\* of the returned dict is NaN and the rain probability is 0
NanResult ==
    [temperature |-> NaN, precipitation |-> NaN, probability |-> 0,
     cloud_cover |-> NaN, wind_speed |-> NaN, humidity |-> NaN,
     solar_radiation |-> NaN]
\* what the call predict_weather(...) of line 634 does: raise, or return
PredictWeatherOutcomes ==
    {[raised |-> TRUE, value |-> <<>>]}
        \cup {[raised |-> FALSE, value |-> <<r>>] :
                  r \in BackendResults \cup {NanResult}}

\* transform_backend_data(backend_results, ..., location): the frontend dict,
\* or the ValueError of int(nan) for 'uv_index'
TransformBackendData(r, location) ==
    IF r.solar_radiation = NaN THEN [err |-> "ValueError", value |-> <<>>]
    ELSE [err |-> "",
          value |-> <<[temperature |-> r.temperature,
                       humidity |-> r.humidity,
                       wind_speed |-> r.wind_speed,
                       precipitation |-> r.precipitation,
                       precipitation_prob |-> r.probability * 10,
                       cloud_cover |-> r.cloud_cover,
                       solar_radiation |-> r.solar_radiation,
                       uv_index |-> Min(11, Max(0, r.solar_radiation \div 800)),
                       condition |-> ClassifyWeather(r).classification,
                       location |-> location]>>]

\* a new session of the app
InitApp ==
    /\ clients = {}
    /\ world = [values |-> "constant", holdings |-> "all"]
    /\ solver = "axis"
    /\ rng = Seeded(0)
    /\ pc = [c \in Clients |-> "idle"]
    /\ args = [c \in Clients |-> NoArgs]
    /\ tasks = [c \in Clients |-> NoTasks]
    /\ attempts = [c \in Clients |-> NoTasks]
    /\ raising = [c \in Clients |-> ""]
    /\ combined = [c \in Clients |-> NoneDs]
    /\ prep = [c \in Clients |-> NoPrep]
    /\ samples = [c \in Clients |-> NoSamples]
    /\ result = [c \in Clients |-> NoResult]
    /\ err = [c \in Clients |-> ""]
    /\ forecast = NoForecast
    /\ label = NoLabel
    /\ arrived = [c \in Clients |-> <<>>]
    /\ pca_call = NoPcaCall
    /\ session = NoSession

\* the user picks a location on the map or types coordinates
SelectLocation(l) ==
    /\ session' = [session EXCEPT !.location = <<l>>]
    /\ UNCHANGED <<pca_call, forecast, label, arrived, clients, world, solver,
                   rng, pc, args, tasks, attempts, raising, combined, prep,
                   samples, result, err>>

\* one click on 'Predict Weather': the try block of lines 627-656 and its
\* except clause
PredictClicked ==
    /\ session.location # <<>>
    /\ \E o \in PredictWeatherOutcomes :
          IF o.raised THEN session' = session
          ELSE LET stored == [session EXCEPT !.raw_backend_data = o.value]
                   t      == TransformBackendData(o.value[1],
                                                  session.location[1])
               IN  session' = IF t.err # "" THEN stored
                              ELSE [stored EXCEPT !.predictions = t.value,
                                                  !.card_generated = FALSE,
                                                  !.card_image = <<>>]
    /\ UNCHANGED <<pca_call, forecast, label, arrived, clients, world, solver,
                   rng, pc, args, tasks, attempts, raising, combined, prep,
                   samples, result, err>>

NextApp ==
    \/ \E l \in Locations : SelectLocation(l)
    \/ PredictClicked
SpecApp == InitApp /\ [][NextApp]_vars

(* ------------------------------ properties ----------------------------- *)
Past(c, stages) == pc[c] \in stages
AfterFetch == {"fetched", "prepared", "sampled", "done", "error"}
Produced == {"prepared", "sampled", "done"}

\* the days-of-year of the records a surviving year itself returned
OwnDoys(cmb, i) == {DoyOf(t) : t \in cmb.own[i]}
\* the days-of-year observed in every surviving year
SharedDoys(cmb) ==
    {d \in OwnDoys(cmb, 1) : \A i \in 1..Len(cmb.year) : d \in OwnDoys(cmb, i)}

\* the ensemble a call would compute on a generator of its own
OwnEnsemble(c) ==
    LET p   == Pipeline(world, solver, args[c], combined[c])
        pcs == PcSamples(p.eigvals_k, args[c].N_mc, Seeded(args[c].random_seed))
    IN  CenterSamples(pcs, p.eigvecs_k, p.mu, NVars, args[c].days_window)

\* C1: when two predict calls overlap, the draws generate_ensemble uses in a
\* call are those of a generator seeded with the call's own seed, whatever
\* the other call does in between.
C1_OwnRandomStream ==
    \A c \in clients :
        Past(c, {"sampled", "done"}) =>
            samples[c].pc_samples =
                PcSamples(prep[c].eigvals_k, args[c].N_mc,
                          Seeded(args[c].random_seed))

\* C2: a predict call that runs alone returns the ensemble and the statistics
\* that its arguments, the data it fetched and its seed determine, whatever
\* calls were executed before it; so two such calls with the same arguments,
\* data and seed return the same.
C2_SequentialDeterminism ==
    \A c \in clients :
        Past(c, {"done"}) =>
            /\ samples[c].center_samples = OwnEnsemble(c)
            /\ result[c] = Summarize(OwnEnsemble(c), args[c].N_mc,
                   Pipeline(world, solver, args[c], combined[c]).k,
                   args[c].target)
C2_Witness ==
    /\ pc["A"] = "done"
    /\ world.values = "varying"
    /\ args["A"].N_mc = MaxN
    /\ \E n \in DOMAIN samples["A"].pc_samples :
          \E j \in DOMAIN samples["A"].pc_samples[n] :
              samples["A"].pc_samples[n][j] # 0

\* C3: when some but not all of the per-year fetches fail,
\* fetch_multi_year_data returns a combined history whose years are exactly
\* the years whose fetch succeeded, and the call is not aborted by the fetch.
C3_PartialFailureKeepsSuccessfulYears ==
    \A c \in clients :
        (/\ Past(c, AfterFetch)
         /\ raising[c] = ""
         /\ Failed(c) # {}
         /\ Succeeded(c) # {}) =>
            /\ ~combined[c].none
            /\ combined[c].year = SortedSeq(Succeeded(c))
            /\ err[c] \notin {"RuntimeError"}
C3_Witness ==
    /\ pc["A"] = "done"
    /\ Failed("A") # {}
    /\ Cardinality(Succeeded("A")) >= 2

\* C4: when every per-year fetch of a call fails, the fetch returns no
\* combined history and predict raises the error of missing data; the call
\* never has a result.
C4_AllFetchesFailRaises ==
    \A c \in clients :
        (/\ Past(c, AfterFetch)
         /\ raising[c] = ""
         /\ Failed(c) = DOMAIN tasks[c]) =>
            /\ combined[c].none
            /\ pc[c] \in {"fetched", "error"}
            /\ pc[c] = "error" => err[c] = "RuntimeError"
            /\ result[c] = NoResult
C4_Witness ==
    /\ pc["A"] = "error"
    /\ err["A"] = "RuntimeError"
    /\ Cardinality(DOMAIN tasks["A"]) >= 2
    /\ Failed("A") = DOMAIN tasks["A"]
    /\ result["A"] = NoResult

\* C5: when fewer than two years survive the fetch (one successful year, none,
\* or a history of one year), predict ends with an error and has no result.
C5_FewerThanTwoYearsRaises ==
    \A c \in clients :
        (Past(c, AfterFetch) /\ Cardinality(Succeeded(c)) < 2) =>
            /\ pc[c] \in {"fetched", "error"}
            /\ pc[c] = "error" => err[c] # ""
            /\ result[c] = NoResult
C5_Witness ==
    /\ pc["A"] = "error"
    /\ err["A"] = "KeyError"
    /\ args["A"].years_back >= 2
    /\ Cardinality(Succeeded("A")) = 1
    /\ result["A"] = NoResult

\* C6: a call whose surviving years have no day-of-year in common does not
\* get past the preparation: it ends with an error.
C6_DisjointCalendarsRaise ==
    \A c \in clients :
        Past(c, Produced) => SharedDoys(combined[c]) # {}

\* C7: when the history is constant, so that the total variance is zero, the
\* preparation only fails for reasons that are not the variance (fewer than
\* two years, too few days for the window, a window of zero days); otherwise
\* every component is retained with the eigenvalue 1e-8, the ensemble has N
\* members and the result is complete.
C7_ConstantHistoryFloor ==
    \A c \in clients :
        world.values = "constant" =>
            /\ Past(c, Produced) =>
                  /\ prep[c].k = (2 * args[c].days_window + 1) * NVars
                  /\ Len(prep[c].eigvals_k) = prep[c].k
                  /\ \A r \in 1..prep[c].k :
                        prep[c].eigvals_k[r] = [hi |-> 1, lo |-> 0]
            /\ Past(c, {"sampled", "done"}) =>
                  /\ Len(samples[c].pc_samples) = args[c].N_mc
                  /\ Len(samples[c].center_samples) = args[c].N_mc
            /\ Past(c, {"done"}) =>
                  /\ result[c].metadata.n_ensemble = args[c].N_mc
                  /\ {result[c].predictions[vi].name : vi \in 1..NVars} =
                         Range(VarMapping)
            /\ (Past(c, {"error"}) /\ raising[c] = "") =>
                  \/ Cardinality(Succeeded(c)) < 2
                  \/ args[c].days_window = 0
                  \/ Len(prep[c].common_doys) < 2 * args[c].days_window + 1
C7_Witness ==
    /\ world.values = "constant"
    /\ pc["A"] = "done"
    /\ args["A"].days_window >= 1
    /\ Len(samples["A"].center_samples) = MaxN
    /\ \A r \in 1..prep["A"].k : prep["A"].eigvals_k[r] = [hi |-> 1, lo |-> 0]

\* C8: within a call every submitted year is requested at most once, and a
\* year whose request was sent, answered or failed has been requested exactly
\* once; when the fetch has returned, that is every year of the history.
C8_OneAttemptPerYear ==
    \A c \in clients :
        /\ \A y \in DOMAIN tasks[c] :
              /\ attempts[c][y] <= 1
              /\ tasks[c][y].st # "queued" => attempts[c][y] = 1
        /\ (Past(c, AfterFetch) /\ raising[c] = "") =>
              /\ DOMAIN tasks[c] = YearRange(EndYear(args[c]), args[c].years_back)
              /\ \A y \in DOMAIN tasks[c] : attempts[c][y] = 1
C8_Witness ==
    /\ pc["A"] = "fetched"
    /\ args["A"].years_back = MaxYearsBack
    /\ Failed("A") # {}
    /\ Succeeded("A") # {}
    /\ \A y \in DOMAIN tasks["A"] : attempts["A"][y] = 1

\* C9: the years a call fetches lie in [target_year - years_back,
\* target_year - 1] when include_current_year is false and in
\* [target_year - years_back + 1, target_year] when it is true, and they are
\* all the years of that range when no date of the range is invalid.
C9_FetchedYearsRange ==
    \A c \in clients :
        LET a  == args[c]
            lo == IF a.include_current_year
                  THEN TargetYear(a) - a.years_back + 1
                  ELSE TargetYear(a) - a.years_back
            hi == IF a.include_current_year
                  THEN TargetYear(a) ELSE TargetYear(a) - 1
        IN  /\ DOMAIN tasks[c] \subseteq lo..hi
            /\ (Past(c, {"fetching"} \cup AfterFetch) /\ raising[c] = "") =>
                  DOMAIN tasks[c] = lo..hi
C9_Witness ==
    /\ pc["A"] = "done"
    /\ ~args["A"].include_current_year
    /\ args["A"].years_back = MaxYearsBack
    /\ DOMAIN tasks["A"] =
          (TargetYear(args["A"]) - MaxYearsBack)..(TargetYear(args["A"]) - 1)
    /\ TargetYear(args["A"]) \notin Range(combined["A"].year)

\* C10: the common day set of a prepared call is the intersection of the
\* days-of-year observed in each surviving year.
C10_CommonDoysIsIntersection ==
    \A c \in clients :
        Past(c, Produced) =>
            Range(prep[c].common_doys) = SharedDoys(combined[c])

\* the centre slice of a call before apply_constraints
Unclipped(c) ==
    CenterSlice(samples[c].pc_samples, prep[c].eigvecs_k, prep[c].mu, NVars,
                args[c].days_window)
InBounds(x, vi) ==
    /\ x >= ClipLo[vi] * EnsScale
    /\ ClipHi[vi] # NoBound => x <= ClipHi[vi] * EnsScale

Rainy(c) ==
    {n \in DOMAIN samples[c].center_samples :
        samples[c].center_samples[n][1] > RainThreshold}
C13_RainProbabilityIsFraction ==
    \A c \in clients :
        Past(c, {"done"}) =>
            /\ result[c].probability >= 0
            /\ result[c].probability <= EnsScale
            /\ result[c].probability =
                  (Cardinality(Rainy(c)) * EnsScale) \div args[c].N_mc
            /\ Len(samples[c].center_samples) = args[c].N_mc
C13_Witness ==
    /\ pc["A"] = "done"
    /\ args["A"].N_mc = MaxN
    /\ \E n \in DOMAIN samples["A"].center_samples :
          /\ samples["A"].center_samples[n][1] = RainThreshold
          /\ n \notin Rainy("A")
    /\ result["A"].probability =
          (Cardinality(Rainy("A")) * EnsScale) \div MaxN
    /\ result["A"].probability < EnsScale

\* C14: with N = 1 predict returns a result in which, for every variable,
\* mean, median, p5 and p95 are the value of the single member; such a call
\* fails only before the ensemble is drawn, for reasons that do not depend
\* on N.
C14_SingleMember ==
    \A c \in clients :
        /\ (Past(c, {"done"}) /\ args[c].N_mc = 1) =>
              /\ Len(samples[c].center_samples) = 1
              /\ \A vi \in 1..NVars :
                    LET x == samples[c].center_samples[1][vi]
                        r == result[c].predictions[vi]
                    IN  r.mean = x /\ r.median = x /\ r.p5 = x /\ r.p95 = x
        /\ (Past(c, {"error"}) /\ args[c].N_mc = 1) =>
              /\ samples[c] = NoSamples
              /\ Pipeline(world, solver, [args[c] EXCEPT !.N_mc = MaxN],
                          combined[c]).err = err[c]
                 \/ raising[c] # ""
C14_Witness ==
    /\ pc["A"] = "done"
    /\ args["A"].N_mc = 1
    /\ world.values = "varying"
    /\ \A vi \in 1..NVars :
          result["A"].predictions[vi].mean = samples["A"].center_samples[1][vi]
    /\ result["A"].predictions[2].p5 = result["A"].predictions[2].p95
    /\ samples["A"].pc_samples[1][1] # 0

\* the weights compute_weights returns for the years and valid days of a call
WeightsOf(c) ==
    ComputeWeights(prep[c].years, TargetYear(args[c]), prep[c].valid_doys,
                   TargetDoy(args[c]))
\* |SumSeq(w) - 1| within the rounding of n fixed-point entries
SumsToOne(w, n) == Abs(SumSeq(w) - WScale) <= n

\* C15: for non-empty year and day lists, the year weights and the day
\* weights of compute_weights are non-negative and each sum to 1 (within the
\* rounding of the representation); W_combined[y][d] = W_year[y] * W_day[d],
\* and its entries sum to 1.
C15_WeightsSumToOne ==
    \A c \in clients :
        (prep[c].years # <<>> /\ prep[c].valid_doys # <<>>) =>
            LET W   == WeightsOf(c)
                n_y == Len(prep[c].years)
                n_d == Len(prep[c].valid_doys)
            IN  /\ Len(W.W_year) = n_y
                /\ Len(W.W_day) = n_d
                /\ \A i \in 1..n_y : W.W_year[i] >= 0
                /\ \A k \in 1..n_d : W.W_day[k] >= 0
                /\ SumsToOne(W.W_year, n_y)
                /\ SumsToOne(W.W_day, n_d)
                /\ \A i \in 1..n_y : \A k \in 1..n_d :
                      W.W_combined[i][k] = (W.W_year[i] * W.W_day[k]) \div WScale
                /\ SumsToOne(Flatten(W.W_combined), n_y * n_d + n_y + n_d)
                /\ prep[c].w_all = Flatten(W.W_combined)
C15_Witness ==
    /\ pc["A"] = "prepared"
    /\ Len(prep["A"].years) = MaxYearsBack
    /\ Len(prep["A"].valid_doys) >= 2
    /\ WeightsOf("A").W_year[1] < WeightsOf("A").W_year[MaxYearsBack]
    /\ WeightsOf("A").W_day[1] # WeightsOf("A").W_day[2]
    /\ SumsToOne(prep["A"].w_all, 3 * MaxYearsBack)

\* the eigenvalues of the covariance of a prepared call, in descending order
Spectrum(c) ==
    LET n   == (2 * args[c].days_window + 1) * NVars
        X   == Flatten(BuildStateVectors(prep[c].X_raw, Len(prep[c].common_doys),
                                         args[c].days_window).X_state)
        w   == Normalize(prep[c].w_all)
        eig == Eigh(Covariance(X, w, prep[c].mu, n), solver)
        idx == ArgsortDesc(eig.eigvals)
    IN  Arr([r \in 1..n |-> eig.eigvals[idx[r]]])
\* cumvar[K - 1] >= pct / 100, for cumvar = cumsum(eigvals) / (total_var + 1e-16)
ReachesThreshold(eigvals, K, pct) ==
    100 * CumSum(eigvals)[K] > pct * SumSeq(eigvals)

\* C16: for every threshold, here the default and 1.0, the component count
\* K of weighted_pca is between 1 and the state dimension, cumvar[K - 1]
\* reaches the threshold, and no smaller count does; also for a history with
\* zero total variance.
C16_MinimalK ==
    \A c \in clients :
        Past(c, Produced) =>
            LET ev == Spectrum(c)
            IN  /\ prep[c].k = SelectK(ev, VarThresholdPct, Len(ev))
                /\ \A pct \in {VarThresholdPct, 100} :
                      LET k == SelectK(ev, pct, Len(ev))
                      IN  /\ k >= 1
                          /\ k <= Len(ev)
                          /\ ReachesThreshold(ev, k, pct)
                          /\ \A K \in 1..(k - 1) : ~ReachesThreshold(ev, K, pct)

\* the base category of a returned classification
BaseOf(l) == l.classification[Len(l.classification)]
Categories == {"snowy", "heavy_rain", "rainy", "light_rain", "overcast",
               "cloudy", "partly_cloudy", "hot", "clear"}
Wet(f) == f.precipitation > 50 /\ f.probability > 5
Damp(f) == ~Wet(f) /\ f.precipitation > 5 /\ f.probability > 3
Dry(f) == ~Wet(f) /\ ~Damp(f)

\* C17: once classify_weather has returned, the base category is one of the
\* nine and is the one of the first matching rule (precipitation > 5 and
\* probability > 0.5: snowy below 0 degrees, else heavy_rain above 20, else
\* rainy; precipitation > 0.5 and probability > 0.3: light_rain; then cloud
\* cover > 80 overcast, > 50 cloudy, > 20 partly_cloudy; otherwise hot above
\* 30 degrees, else clear); it is prefixed by windy_ exactly when wind > 15,
\* and no other humidity gives another classification.
C17_FirstMatchingRule ==
    label # NoLabel =>
        LET f == forecast
            b == BaseOf(label)
        IN  /\ b \in Categories
            /\ b = "snowy" <=> (Wet(f) /\ f.temperature < 0)
            /\ b = "heavy_rain" <=>
                  (Wet(f) /\ f.temperature >= 0 /\ f.precipitation > 200)
            /\ b = "rainy" <=>
                  (Wet(f) /\ f.temperature >= 0 /\ f.precipitation <= 200)
            /\ b = "light_rain" <=> Damp(f)
            /\ b = "overcast" <=> (Dry(f) /\ f.cloud_cover > 800)
            /\ b = "cloudy" <=>
                  (Dry(f) /\ f.cloud_cover > 500 /\ f.cloud_cover <= 800)
            /\ b = "partly_cloudy" <=>
                  (Dry(f) /\ f.cloud_cover > 200 /\ f.cloud_cover <= 500)
            /\ b = "hot" <=>
                  (Dry(f) /\ f.cloud_cover <= 200 /\ f.temperature > 300)
            /\ b = "clear" <=>
                  (Dry(f) /\ f.cloud_cover <= 200 /\ f.temperature <= 300)
            /\ label.classification = <<"windy_", b>> <=> f.wind_speed > 150
            /\ label.classification = <<b>> <=> f.wind_speed <= 150
            /\ \A h \in HumidityMeans :
                  ClassifyWeather([f EXCEPT !.humidity = h]).classification
                      = label.classification
C17_Witness ==
    /\ label.classification = <<"windy_", "light_rain">>
    /\ forecast.precipitation > 50
    /\ forecast.probability = 5
    /\ forecast.cloud_cover > 800
    /\ forecast.humidity > 850
    /\ forecast.temperature > 250
    /\ label.short_desc = <<"Windy with ", "Light rain possible", " and humid">>

\* the years of the history range in which the target month and day exist
FetchableYears(a) ==
    {y \in YearRange(EndYear(a), a.years_back) :
        ValidDate(y, TargetMonth(a), TargetDay(a))}

\* C18: for every valid target date, 29 February included, a call submits
\* one fetch for each year of [end_year - years_back + 1, end_year] in which
\* the target day can be formed, a year in which it cannot is dropped, and
\* no such year aborts the call.
C18_EveryYearFetchedOrDropped ==
    \A c \in clients :
        Past(c, {"fetching"} \cup AfterFetch) =>
            /\ raising[c] = ""
            /\ DOMAIN tasks[c] = FetchableYears(args[c])
            /\ \A y \in Succeeded(c) :
                  tasks[c][y].time \subseteq
                      StartOf(y, TargetMonth(args[c]), TargetDay(args[c]),
                              args[c].days_window)
                      ..EndOf(y, TargetMonth(args[c]), TargetDay(args[c]),
                              args[c].days_window)

\* C19: fetch_multi_year_data has returned, and the preparation has begun,
\* only when every submitted year fetch has completed or failed: past the
\* fetch no task of the call is queued or running.
C19_JoinBeforeAggregation ==
    \A c \in clients :
        Past(c, AfterFetch) =>
            /\ Running(c) = {}
            /\ \A y \in DOMAIN tasks[c] : tasks[c][y].st \in {"ok", "failed"}
C19_Witness ==
    /\ pc["A"] = "prepared"
    /\ Cardinality(DOMAIN tasks["A"]) = MaxYearsBack
    /\ Finished("A") = DOMAIN tasks["A"]
    /\ Cardinality(Succeeded("A")) = MaxYearsBack - 1

\* C20: when fetch_multi_year_data returns, the years of the combined
\* history are the successful years in ascending order and each year's slot
\* holds what that year's fetch returned, in whatever order the futures
\* finished.
C20_OrderByYear ==
    [][\A c \in Clients :
          (pc[c] = "fetching" /\ pc'[c] = "fetched") =>
              LET ys == combined'[c].year
              IN  /\ Range(arrived[c]) = DOMAIN tasks[c]
                  /\ Range(ys) = Succeeded(c)
                  /\ \A i \in 1..Len(ys) : \A j \in 1..Len(ys) :
                        i < j => ys[i] < ys[j]
                  /\ \A i \in 1..Len(ys) :
                        combined'[c].own[i] = tasks[c][ys[i]].time]_vars
C20_Witness ==
    /\ pc["A"] = "fetching"
    /\ Len(arrived["A"]) = MaxYearsBack
    /\ Succeeded("A") = DOMAIN tasks["A"]
    /\ \A i \in 1..(MaxYearsBack - 1) : arrived["A"][i] > arrived["A"][i + 1]
    /\ world.holdings = "gappy"
    /\ args["A"].days_window = MaxWindow

\* the tensor of a prepared call after daily aggregation, before imputation
Aggregated(c) ==
    RawTensor(world, AssignCoords(combined[c]), prep[c].common_doys)
\* the non-missing entries of variable v, over all years and days
Observed(X, v) ==
    LET NotMissing(x) == x # NaN
    IN  SelectSeq(Flatten([i \in 1..Len(X) |-> [k \in 1..Len(X[i]) |->
                              X[i][k][v]]]), NotMissing)

Built(c) ==
    /\ prep[c].years # <<>>
    /\ Len(prep[c].common_doys) >= 2 * args[c].days_window

\* C22: build_state_vectors returns an array of shape
\* [n_years, n_days - 2W, (2W+1) * n_vars] in which the vector of year y and
\* center c holds, at offset j * n_vars + v, the raw value of variable v on day
\* c + j of year y; the W days at each edge are never a center.
C22_StateVectorLayout ==
    \A c \in clients :
        Built(c) =>
            LET W       == args[c].days_window
                X_raw   == prep[c].X_raw
                X_state == prep[c].X_state
                n_days  == Len(prep[c].common_doys)
            IN  /\ Len(X_state) = Len(X_raw)
                /\ \A y \in 1..Len(X_state) :
                      /\ Len(X_state[y]) = n_days - 2 * W
                      /\ \A d \in 1..Len(X_state[y]) :
                            /\ Len(X_state[y][d]) = (2 * W + 1) * NVars
                            /\ d + W > W /\ d + W <= n_days - W
                            /\ \A j \in 0..(2 * W) : \A v \in 1..NVars :
                                  X_state[y][d][j * NVars + v]
                                      = X_raw[y][d + j][v]
C22_Witness ==
    /\ Built("A")
    /\ args["A"].days_window = 1
    /\ Len(prep["A"].common_doys) > 3
    /\ \E y \in 1..Len(prep["A"].X_state) :
          LET sv == prep["A"].X_state[y][2]
          IN  /\ sv[2] # sv[NVars + 2]
              /\ sv[2] # sv[3]
              /\ sv[NVars + 2] = prep["A"].X_raw[y][3][2]

\* C23: every state vector that predict feeds to the PCA is built from 2W+1
\* consecutive calendar days: from one window position to the next the
\* day-of-year grows by exactly 1, also when the common day set has a gap.
C23_WindowsAreConsecutiveDays ==
    \A c \in clients :
        Past(c, Produced) =>
            LET W    == args[c].days_window
                doys == prep[c].common_doys
            IN  \A d \in 1..(Len(doys) - 2 * W) : \A j \in 1..(2 * W) :
                    doys[d + j] = doys[d + j - 1] + 1

\* the day-of-year of the center day of each window of the call of client c
CenterDoys(c) ==
    [d \in 1..(Len(prep[c].common_doys) - 2 * args[c].days_window) |->
        prep[c].common_doys[d + args[c].days_window]]

\* C24: PCA sample row i is the state vector of year (i div n_valid_days) and
\* center (i mod n_valid_days), and its weight is W_year of that year times
\* W_day of that center, W_day being computed from the day-of-year of the
\* center day of the window.
C24_RowsPairedWithCenterWeights ==
    \A c \in clients :
        Past(c, Produced) =>
            LET X_state == prep[c].X_state
                X_all   == Flatten(X_state)
                n_valid == Len(CenterDoys(c))
                wts     == ComputeWeights(prep[c].years, TargetYear(args[c]),
                                          CenterDoys(c), TargetDoy(args[c]))
            IN  /\ Len(X_all) = prep[c].n_rows
                /\ Len(prep[c].w_all) = prep[c].n_rows
                /\ prep[c].n_rows = Len(prep[c].years) * n_valid
                /\ \A i \in 0..(prep[c].n_rows - 1) :
                      LET y == (i \div n_valid) + 1
                          d == (i % n_valid) + 1
                      IN  /\ X_all[i + 1] = X_state[y][d]
                          /\ prep[c].w_all[i + 1]
                                 = (wts.W_year[y] * wts.W_day[d]) \div WScale
C24_Witness ==
    /\ pc["A"] = "prepared"
    /\ args["A"].days_window = 1
    /\ Len(CenterDoys("A")) >= 2
    /\ world.values = "varying"
    /\ prep["A"].w_all[1] # prep["A"].w_all[2]
    /\ prep["A"].w_all[2] # prep["A"].w_all[Len(CenterDoys("A")) + 2]
    /\ Flatten(prep["A"].X_state)[1] # Flatten(prep["A"].X_state)[2]

\* C25: year and day weights are ordered by plain absolute distance, with no
\* wrap-around at the year boundary: W_year[a] >= W_year[b] exactly when
\* |year_a - target_year| <= |year_b - target_year|, and W_day[a] >= W_day[b]
\* exactly when |doy_a - target_doy| <= |doy_b - target_doy|.
C25_WeightsOrderedByPlainDistance ==
    \A c \in clients :
        Past(c, Produced) =>
            LET p  == prep[c]
                ty == TargetYear(args[c])
                td == TargetDoy(args[c])
            IN  /\ Len(p.W_year) = Len(p.years)
                /\ Len(p.W_day) = Len(p.valid_doys)
                /\ \A a, b \in 1..Len(p.years) :
                      (p.W_year[a] >= p.W_year[b])
                          <=> (Abs(p.years[a] - ty) <= Abs(p.years[b] - ty))
                /\ \A a, b \in 1..Len(p.valid_doys) :
                      (p.W_day[a] >= p.W_day[b])
                          <=> (Abs(p.valid_doys[a] - td)
                                   <= Abs(p.valid_doys[b] - td))
C25_Witness ==
    /\ pc["A"] = "prepared"
    /\ TargetDoy(args["A"]) = 1
    /\ Len(prep["A"].years) >= 2
    /\ prep["A"].W_year[1] < prep["A"].W_year[2]
    /\ \E a, b \in 1..Len(prep["A"].valid_doys) :
          /\ prep["A"].valid_doys[a] = 2
          /\ prep["A"].valid_doys[b] = 365
          /\ prep["A"].W_day[a] > prep["A"].W_day[b]

\* the covariance matrix of the samples of the call of client c
SigmaOf(c) ==
    Arr(Covariance(Flatten(prep[c].X_state), Normalize(prep[c].w_all),
                   prep[c].mu, (2 * args[c].days_window + 1) * NVars))
\* np.sum(eigvals), the trace of the covariance matrix, in 1e-8
TotalVariance(Sigma) == SumSeq([a \in 1..Len(Sigma) |-> Sigma[a][a]])
\* x >= y for two regularised eigenvalues
EigGE(x, y) == x.hi > y.hi \/ (x.hi = y.hi /\ x.lo >= y.lo)
\* eigval >= 1e-8 * total_var, or >= 1e-8 when total_var is not positive
AboveFloor(eigval, total_var) ==
    IF total_var > 0
    THEN \/ eigval.hi > total_var \div EigScale
         \/ eigval.hi * EigScale + eigval.lo >= total_var
    ELSE eigval.hi >= 1

C27_FewerThanTwoSamplesFail ==
    (pca_call.returned /\ Len(pca_call.X) < 2) =>
        /\ pca_call.out.err # ""
        /\ pca_call.out.eigvecs_k = <<>>

\* C28: clipping truncates and never redraws: apply_constraints replaces a
\* value below its variable's lower bound by that bound, a value above the
\* upper bound by that bound, leaves every value in range unchanged, keeps the
\* N members in their order, and applying it a second time changes nothing.
C28_ClippingTruncates ==
    \A c \in clients :
        Past(c, {"sampled", "done"}) =>
            LET before == Unclipped(c)
                after  == samples[c].center_samples
            IN  /\ Len(after) = args[c].N_mc
                /\ Len(before) = args[c].N_mc
                /\ \A n \in 1..Len(after) :
                      /\ Len(after[n]) = NVars
                      /\ \A vi \in 1..NVars :
                            LET x  == before[n][vi]
                                lo == ClipLo[vi] * EnsScale
                                hi == ClipHi[vi] * EnsScale
                            IN  /\ x < lo => after[n][vi] = lo
                                /\ (ClipHi[vi] # NoBound /\ x > hi) =>
                                       after[n][vi] = hi
                                /\ InBounds(x, vi) => after[n][vi] = x
                /\ ApplyConstraints(after) = after
C28_Witness ==
    /\ pc["A"] = "sampled"
    /\ args["A"].N_mc = 2
    /\ \E vi \in 1..NVars : \E n, m \in 1..2 :
          /\ ~InBounds(Unclipped("A")[n][vi], vi)
          /\ samples["A"].center_samples[n][vi] # Unclipped("A")[n][vi]
          /\ InBounds(Unclipped("A")[m][vi], vi)
          /\ samples["A"].center_samples[m][vi] # samples["A"].center_samples[n][vi]

\* C29: for every days_window W >= 0, W = 0 included, and every common day
\* set of at least 2W+1 days, predict computes as many day weights as the
\* state tensor has valid center days (n_days - 2W), so that the flattened
\* weight vector has exactly one entry per PCA sample row.
C29_OneWeightPerSampleRow ==
    \A c \in clients :
        (/\ Built(c)
         /\ Len(prep[c].common_doys) >= 2 * args[c].days_window + 1) =>
            LET n_valid == Len(prep[c].common_doys) - 2 * args[c].days_window
            IN  /\ Len(prep[c].valid_doys) = n_valid
                /\ Len(prep[c].W_day) = n_valid
                /\ prep[c].n_rows = Len(prep[c].years) * n_valid
                /\ Len(prep[c].w_all) = prep[c].n_rows

\* C30: after any sequence of successful and failed 'Predict Weather'
\* attempts, the prediction the session displays and its raw backend data are
\* either both unset or both derived from the same predict_weather result (a
\* failed attempt leaves both as they were).
C30_SessionConsistent ==
    \/ /\ session.predictions = <<>>
       /\ session.raw_backend_data = <<>>
    \/ /\ session.predictions # <<>>
       /\ session.raw_backend_data # <<>>
       /\ LET t == TransformBackendData(session.raw_backend_data[1],
                                        session.predictions[1].location)
          IN  t.err = "" /\ t.value = session.predictions

====
